---- MODULE Spec2Model ----
(***************************************************************************)
(* A model of the place-search service of src/a.py (the bounds-checking    *)
(* implementation) with the parser of src/i.py next to it.                 *)
(*                                                                         *)
(* Texts and queries are TLA+ strings handled character by character, so   *)
(* that splitting, regular-expression search, str.lower, str.strip and     *)
(* float() are computed the way the Python code computes them.             *)
(*                                                                         *)
(* Coordinates are exact fixed-point numbers: one unit is 1/Scale of a     *)
(* degree, Scale = 111 * 10^4, so that radius_km / 111 and every decimal   *)
(* with at most four fraction digits are whole numbers of units.           *)
(***************************************************************************)
EXTENDS Integers, Sequences, FiniteSets, TLC

VARIABLES
    pc,             \* control point of the handler / function being run
    query,          \* request.args['query'] as received
    provider,       \* what the IP-geolocation provider answered
    user_location,  \* result of LocationService.get_user_location
    regions,        \* LocationService.regions
    scope,          \* local `scope` of process_location_query
    region,         \* local `region` of process_location_query
    completion,     \* outcome of model.generate_content: "none", "ok", "raise"
    response_text,  \* response.text
    results_df,     \* the DataFrame (a sequence of row records)
    error,          \* exception propagating out of the running function
    response,       \* what get_places answered (code 0: nothing yet)
    steps,          \* observer: the steps process_location_query has taken
    served,         \* observer: what finished requests were answered
    intended,       \* observer: the blocks the completion text was written from
    variant_i       \* what src/i.py computes from the input src/a.py was given

vars == << pc, query, provider, user_location, regions, scope, region,
           completion, response_text, results_df, error, response, steps, served,
           intended, variant_i >>

----------------------------------------------------------------------------
(* Bounds of the model *)

\* words per generated query
MaxWords == 2
\* blocks per generated completion text
MaxBlocks == 2

----------------------------------------------------------------------------
(* Characters and strings *)

Ch(s, i) == SubSeq(s, i, i)

UpperChars == "ABCDEFGHIJKLMNOPQRSTUVWXYZ"
LowerChars == "abcdefghijklmnopqrstuvwxyz"

UpperSet == { Ch(UpperChars, i) : i \in 1..Len(UpperChars) }

LowerOf ==
    [c \in UpperSet |->
        Ch(LowerChars, CHOOSE i \in 1..Len(UpperChars) : Ch(UpperChars, i) = c)]

\* str.lower on one ASCII character
LowerCh(c) == IF c \in UpperSet THEN LowerOf[c] ELSE c

\* str.lower on s[lo..hi]; the interval is halved so that the evaluation of
\* a long string does not nest one level per character
RECURSIVE LowerFrom(_, _, _)
LowerFrom(s, lo, hi) ==
    IF lo > hi THEN ""
    ELSE IF lo = hi THEN LowerCh(Ch(s, lo))
    ELSE LET mid == (lo + hi) \div 2
         IN  LowerFrom(s, lo, mid) \o LowerFrom(s, mid + 1, hi)

\* str.lower
Lower(s) == LowerFrom(s, 1, Len(s))

\* lit occurs in s starting at index i
MatchAt(s, i, lit) ==
    /\ i >= 1
    /\ i + Len(lit) - 1 <= Len(s)
    /\ SubSeq(s, i, i + Len(lit) - 1) = lit

\* Python's `lit in s`
Contains(s, lit) == \E i \in 1..(Len(s) + 1) : MatchAt(s, i, lit)

\* lit occurs in s starting at index i, letter case ignored (re.I); lit is in
\* lower case
MatchAtI(s, i, lit) ==
    /\ i >= 1
    /\ i + Len(lit) - 1 <= Len(s)
    /\ \A k \in 1..Len(lit) : LowerCh(Ch(s, i + k - 1)) = Ch(lit, k)

\* the first index >= i of s whose character is not in `chars`: Len(s) + 1 if
\* there is none, i itself when i is past the end
RunEnd(s, chars, i) ==
    IF i > Len(s) THEN i
    ELSE CHOOSE j \in i..(Len(s) + 1) :
            /\ j = Len(s) + 1 \/ Ch(s, j) \notin chars
            /\ \A k \in i..(j - 1) : Ch(s, k) \in chars

\* the first index >= i at which lit occurs in s, as a set: empty when lit
\* does not occur from i on
FirstMatch(s, lit, i) ==
    { j \in i..Len(s) : /\ MatchAt(s, j, lit)
                        /\ \A k \in i..(j - 1) : ~MatchAt(s, k, lit) }

\* the characters \s matches
Whitespace == {" ", "\n", "\t", "\r", "\f"}

IsSpace(c) == c \in Whitespace

\* the first index >= i of s that holds no whitespace (Len(s) + 1 if none)
LStripFrom(s, i) == RunEnd(s, Whitespace, i)

\* the last index <= j of s that holds no whitespace (0 if none)
RStripFrom(s, j) ==
    CHOOSE k \in 0..j :
        /\ k = 0 \/ ~IsSpace(Ch(s, k))
        /\ \A m \in (k + 1)..j : IsSpace(Ch(s, m))

\* str.strip
Strip(s) == SubSeq(s, LStripFrom(s, 1), RStripFrom(s, Len(s)))

----------------------------------------------------------------------------
(* SearchScope and determine_search_scope *)

SCOPE_NEARBY == "nearby"
SCOPE_LOCAL == "local"
SCOPE_CITY == "city"
SCOPE_METRO == "metro"
SCOPE_REGION == "region"

SearchScope == {SCOPE_NEARBY, SCOPE_LOCAL, SCOPE_CITY, SCOPE_METRO, SCOPE_REGION}

MetroWords == {"college", "university", "hospital", "mall"}
RegionWords == {"park", "beach", "forest", "hill", "mountain", "island"}
NearbyWords == {"restaurant", "shop", "cafe", "store", "salon"}

\* any(word in query_lower for word in words)
AnyWordIn(words, query_lower) == \E word \in words : Contains(query_lower, word)

\* determine_search_scope with the nearby rule tested before the region rule
\* and the city rule before both
determine_search_scope_reordered(q) ==
    LET query_lower == Lower(q) IN
    IF AnyWordIn(MetroWords, query_lower) THEN SCOPE_METRO
    ELSE IF Contains(query_lower, "mumbai") THEN SCOPE_CITY
    ELSE IF AnyWordIn(NearbyWords, query_lower) THEN SCOPE_NEARBY
    ELSE IF AnyWordIn(RegionWords, query_lower) THEN SCOPE_REGION
    ELSE IF Contains(query_lower, "maharashtra") THEN SCOPE_REGION
    ELSE SCOPE_LOCAL

\* determine_search_scope with the region rule tested after the nearby rule
determine_search_scope_nearby_first(q) ==
    LET query_lower == Lower(q) IN
    IF AnyWordIn(MetroWords, query_lower) THEN SCOPE_METRO
    ELSE IF AnyWordIn(NearbyWords, query_lower) THEN SCOPE_NEARBY
    ELSE IF AnyWordIn(RegionWords, query_lower) THEN SCOPE_REGION
    ELSE IF Contains(query_lower, "mumbai") THEN SCOPE_CITY
    ELSE IF Contains(query_lower, "maharashtra") THEN SCOPE_REGION
    ELSE SCOPE_LOCAL

determine_search_scope(q) ==
    LET query_lower == Lower(q) IN
    IF AnyWordIn(MetroWords, query_lower) THEN SCOPE_METRO
    ELSE IF AnyWordIn(RegionWords, query_lower) THEN SCOPE_REGION
    ELSE IF AnyWordIn(NearbyWords, query_lower) THEN SCOPE_NEARBY
    ELSE IF Contains(query_lower, "mumbai") THEN SCOPE_CITY
    ELSE IF Contains(query_lower, "maharashtra") THEN SCOPE_REGION
    ELSE SCOPE_LOCAL

\* determine_search_scope of src/i.py with the city rule of src/a.py: the
\* word 'mumbai' in place of the word 'city'
determine_search_scope_i_mumbai(q) ==
    LET query_lower == Lower(q) IN
    IF AnyWordIn(MetroWords, query_lower) THEN SCOPE_METRO
    ELSE IF AnyWordIn(RegionWords, query_lower) THEN SCOPE_REGION
    ELSE IF AnyWordIn(NearbyWords, query_lower) THEN SCOPE_NEARBY
    ELSE IF Contains(query_lower, "mumbai") THEN SCOPE_CITY
    ELSE SCOPE_LOCAL

\* determine_search_scope of src/i.py: the fourth rule tests the word 'city'
\* and there is no fifth rule
determine_search_scope_i(q) ==
    LET query_lower == Lower(q) IN
    IF AnyWordIn(MetroWords, query_lower) THEN SCOPE_METRO
    ELSE IF AnyWordIn(RegionWords, query_lower) THEN SCOPE_REGION
    ELSE IF AnyWordIn(NearbyWords, query_lower) THEN SCOPE_NEARBY
    ELSE IF Contains(query_lower, "city") THEN SCOPE_CITY
    ELSE SCOPE_LOCAL

----------------------------------------------------------------------------
(* Numbers *)

\* radius_km / 111: kilometres per degree
KmPerDegree == 111

\* units per degree: a multiple of 111 and of 10^4
Scale == KmPerDegree * 10000

\* the decimal whole.frac (frac given as four fraction digits), in units
Deg(whole, frac) == whole * Scale + frac * (Scale \div 10000)

\* A Python value used as a coordinate: a number (in units), or something
\* that is no number (a JSON string, null, list or object).
Num(v) == [num |-> TRUE, v |-> v]
NotANumber == [num |-> FALSE, v |-> 0]

----------------------------------------------------------------------------
(* SearchRegion *)

SearchRegion(center_lat, center_lon, radius_km, name) ==
    [center_lat |-> center_lat, center_lon |-> center_lon,
     radius_km |-> radius_km, name |-> name]

\* radius from which the fixed Mumbai metropolitan box is used
FixedBoundsRadius == 200

\* the fixed box (north, south, east, west) = (19.5, 18.5, 73.5, 72.5)
FixedBounds == << Deg(19, 5000), Deg(18, 5000), Deg(73, 5000), Deg(72, 5000) >>

\* SearchRegion.bounds raises TypeError: float arithmetic on a center that is
\* no number
bounds_raises(self) ==
    /\ self.radius_km < FixedBoundsRadius
    /\ ~(self.center_lat.num /\ self.center_lon.num)

\* SearchRegion.bounds with the fixed box used above 200 km only
bounds_above_threshold(self) ==
    IF self.radius_km > FixedBoundsRadius
    THEN FixedBounds
    ELSE LET deg_change == (self.radius_km * Scale) \div KmPerDegree IN
         << self.center_lat.v + deg_change,
            self.center_lat.v - deg_change,
            self.center_lon.v + deg_change,
            self.center_lon.v - deg_change >>

\* SearchRegion.bounds, as (north, south, east, west)
bounds(self) ==
    IF self.radius_km >= FixedBoundsRadius
    THEN FixedBounds
    ELSE LET deg_change == (self.radius_km * Scale) \div KmPerDegree IN
         << self.center_lat.v + deg_change,
            self.center_lat.v - deg_change,
            self.center_lon.v + deg_change,
            self.center_lon.v - deg_change >>

----------------------------------------------------------------------------
(* LocationService *)

\* self.default_location: Bandra Mount Mary, (19.0549, 72.8258)
default_location == << Num(Deg(19, 549)), Num(Deg(72, 8258)) >>

RadiusNearby == 5
RadiusLocal == 15
RadiusCity == 30
RadiusMetro == 50
RadiusRegion == 200

\* the dictionary initialize_regions builds
initialize_regions(center_lat, center_lon) ==
    [s \in SearchScope |->
        CASE s = SCOPE_NEARBY -> SearchRegion(center_lat, center_lon, RadiusNearby, "Nearby Area")
          [] s = SCOPE_LOCAL  -> SearchRegion(center_lat, center_lon, RadiusLocal, "Local Area")
          [] s = SCOPE_CITY   -> SearchRegion(center_lat, center_lon, RadiusCity, "City Area")
          [] s = SCOPE_METRO  -> SearchRegion(center_lat, center_lon, RadiusMetro, "Metropolitan Area")
          [] s = SCOPE_REGION -> SearchRegion(center_lat, center_lon, RadiusRegion,
                                              "Mumbai Metropolitan Region")]

\* the dictionary initialize_regions of src/i.py builds: the same literals
\* but for the name of the widest region
initialize_regions_i(center_lat, center_lon) ==
    [s \in SearchScope |->
        CASE s = SCOPE_NEARBY -> SearchRegion(center_lat, center_lon, 5, "Nearby Area")
          [] s = SCOPE_LOCAL  -> SearchRegion(center_lat, center_lon, 15, "Local Area")
          [] s = SCOPE_CITY   -> SearchRegion(center_lat, center_lon, 30, "City Area")
          [] s = SCOPE_METRO  -> SearchRegion(center_lat, center_lon, 50, "Metropolitan Area")
          [] s = SCOPE_REGION -> SearchRegion(center_lat, center_lon, 200, "Regional Area")]

\* LocationService.__init__: self.regions = {}
NoRegions == [s \in {} |-> SearchRegion(NotANumber, NotANumber, 0, "")]

\* get_search_region raises ValueError: `if not self.regions`
get_search_region_raises(rs) == DOMAIN rs = {}

\* get_search_region that always takes the fallback branch
get_search_region_fallback(rs, s) == rs[SCOPE_LOCAL]

\* get_search_region: self.regions.get(scope.value), else the local region
get_search_region(rs, s) ==
    IF s \in DOMAIN rs THEN rs[s] ELSE rs[SCOPE_LOCAL]

\* The answers of the IP-geolocation provider, by what get_user_location
\* does with them.
\*   raise     requests.get raises (network error)
\*   http      an answer whose status_code is not 200
\*   notjson   a 200 answer whose body is no JSON: response.json() raises
\*   notdict   a 200 answer whose JSON is no object: data.get raises
\*   fail      a 200 JSON object whose 'status' is not 'success'
\*   nokeys    status 'success' without 'lat' or 'lon': KeyError
\*   success   status 'success' with 'lat' and 'lon' (any JSON values)
ProviderAnswer(kind, lat, lon) == [kind |-> kind, lat |-> lat, lon |-> lon]

ProviderFailure(kind) == ProviderAnswer(kind, NotANumber, NotANumber)

\* LocationService.get_user_location
get_user_location(answer) ==
    IF answer.kind = "raise" THEN default_location
    ELSE IF answer.kind = "http" THEN default_location
    ELSE IF answer.kind \in {"notjson", "notdict"} THEN default_location
    ELSE IF answer.kind = "fail" THEN default_location
    ELSE IF answer.kind = "nokeys" THEN default_location
    ELSE << answer.lat, answer.lon >>

----------------------------------------------------------------------------
(* str.split, the regular expressions and float() *)

\* response_text.split('\n\n') from index `start` on: the separator is
\* looked for left to right and the search resumes after it
RECURSIVE SplitFrom(_, _)
SplitFrom(s, start) ==
    LET found == FirstMatch(s, "\n\n", start)
    IN  IF found = {} THEN << SubSeq(s, start, Len(s)) >>
        ELSE CHOOSE pieces \in { << SubSeq(s, start, i - 1) >> \o SplitFrom(s, i + 2) :
                                    i \in found } : TRUE

split(s) == SplitFrom(s, 1)

\* the first index >= i of s that holds no whitespace (i itself past the end)
WsRunEnd(s, i) == RunEnd(s, Whitespace, i)

\* the last index of the line that index i of s is on
LineEnd(s, i) ==
    CHOOSE j \in i..Len(s) :
        /\ j = Len(s) \/ Ch(s, j + 1) = "\n"
        /\ \A k \in (i + 1)..j : Ch(s, k) # "\n"

\* Where the group of \s*([^\n]+) starts when matched from index p: greedy
\* \s* runs up to index st and gives characters back until a character other
\* than a newline follows it. 0 when there is no match.
GroupStart(s, p, st) ==
    LET top == IF st > Len(s) THEN Len(s) ELSE st
    IN  IF \A k \in p..top : Ch(s, k) = "\n" THEN 0
        ELSE CHOOSE g \in p..top :
                /\ Ch(s, g) # "\n"
                /\ \A k \in (g + 1)..top : Ch(s, k) = "\n"

\* Index after `label:` if a label of `labels` stands at index i of the
\* section, else 0 (re.I).
LabelEnd(section, i, labels) ==
    IF \E l \in labels : MatchAtI(section, i, l \o ":")
    THEN i + Len(CHOOSE l \in labels : MatchAtI(section, i, l \o ":")) + 1
    ELSE 0

\* (?:l1|l2|..):\s*([^\n]+) matched at index i: where group(1) starts, or 0
LabelGroupAt(section, labels, i) ==
    LET p == LabelEnd(section, i, labels)
    IN  IF p = 0 THEN 0 ELSE GroupStart(section, p, WsRunEnd(section, p))

\* re.search(r'(?:l1|l2|..):\s*([^\n]+)', section, re.I): << group(1) >> of
\* the leftmost match, or << >> for no match.
LabelSearch(section, labels) ==
    LET found == { j \in 1..Len(section) :
                      /\ LabelGroupAt(section, labels, j) # 0
                      /\ \A k \in 1..(j - 1) : LabelGroupAt(section, labels, k) = 0 }
        groups == { << SubSeq(section, st, LineEnd(section, st)) >> :
                      st \in { LabelGroupAt(section, labels, j) : j \in found } }
    IN  IF groups = {} THEN << >> ELSE CHOOSE g \in groups : TRUE

NameLabels == {"name", "location", "place"}
TypeLabels == {"type", "category"}
DescriptionLabels == {"description"}

\* the three label searches
name_match(section) == LabelSearch(section, NameLabels)
type_match(section) == LabelSearch(section, TypeLabels)
description_match(section) == LabelSearch(section, DescriptionLabels)

Digits == "0123456789"
DigitSet == { Ch(Digits, d) : d \in 1..Len(Digits) }
DigitOf == [c \in DigitSet |-> (CHOOSE d \in 1..Len(Digits) : Ch(Digits, d) = c) - 1]
IsDigit(c) == c \in DigitSet
DigitValue(c) == DigitOf[c]

\* the character class [\d.-]
CoordChars == DigitSet \cup {".", "-"}
IsCoordChar(c) == c \in CoordChars

\* the first index >= i of s that holds no [\d.-] character
CoordRunEnd(s, i) == RunEnd(s, CoordChars, i)

\* The groups of ([\d.-]+)\s*([\d.-]+) where the first run is s[q..r-1] and
\* the second run, after the whitespace, is s[q2..r2-1]: a set of at most one
\* pair. Both runs are greedy; when no second run follows the first one, the
\* first group gives its last character back and that character is the
\* second group.
CoordGroups(s, q, r, q2, r2) ==
    IF r = q THEN {}
    ELSE IF r2 > q2 THEN { << SubSeq(s, q, r - 1), SubSeq(s, q2, r2 - 1) >> }
    ELSE IF r - q >= 2 THEN { << SubSeq(s, q, r - 2), SubSeq(s, r - 1, r - 1) >> }
    ELSE {}

\* \s*([\d.-]+)\s*([\d.-]+) matched from index p: the set of its pairs of
\* groups, empty for no match. Q, R, Q2, R2 hold the index the match has
\* reached after each part of the pattern.
CoordGroupsAt(s, p) ==
    LET Q  == { WsRunEnd(s, p) }
        R  == { CoordRunEnd(s, q) : q \in Q }
        Q2 == { WsRunEnd(s, r) : r \in R }
        R2 == { CoordRunEnd(s, q2) : q2 \in Q2 }
    IN  UNION { CoordGroups(s, q, r, q2, r2) : q \in Q, r \in R, q2 \in Q2, r2 \in R2 }

CoordinatesLabel == "coordinates:"

\* coordinates:\s*([\d.-]+)\s*([\d.-]+) matched at index i: the set of its
\* pairs of groups
CoordinatesAt(section, i) ==
    IF MatchAtI(section, i, CoordinatesLabel)
    THEN CoordGroupsAt(section, i + Len(CoordinatesLabel))
    ELSE {}

\* re.search(r'coordinates:\s*([\d.-]+)\s*([\d.-]+)', section, re.I): the
\* groups of the leftmost match, or << >>
coordinates_match(section) ==
    LET found == { j \in 1..Len(section) :
                      /\ CoordinatesAt(section, j) # {}
                      /\ \A k \in 1..(j - 1) : CoordinatesAt(section, k) = {} }
        groups == UNION { CoordinatesAt(section, j) : j \in found }
    IN  IF groups = {} THEN << >> ELSE CHOOSE g \in groups : TRUE

\* number of characters c in s from index i on
CountFrom(s, c, i) == Cardinality({ k \in i..Len(s) : Ch(s, k) = c })

\* number of digits in s from index i on
CountDigitsFrom(s, i) == Cardinality({ k \in i..Len(s) : IsDigit(Ch(s, k)) })

\* float(s) succeeds, for s made of digits, points and signs: an optional
\* leading sign, digits with at most one point among them, at least one digit.
IsSign(c) == c = "-" \/ c = "+"

Unsigned(s) == IF Len(s) >= 1 /\ IsSign(Ch(s, 1)) THEN Tail(s) ELSE s

float_ok(s) ==
    LET body == Unsigned(s) IN
    /\ CountFrom(body, "-", 1) = 0
    /\ CountFrom(body, "+", 1) = 0
    /\ CountFrom(body, ".", 1) <= 1
    /\ CountDigitsFrom(body, 1) >= 1

\* the digits s[i..j] as a whole number, after the value acc
RECURSIVE WholeValue(_, _, _, _)
WholeValue(s, i, j, acc) ==
    IF i > j THEN acc ELSE WholeValue(s, i + 1, j, 10 * acc + DigitValue(Ch(s, i)))

\* the fraction digits s[i..] in units, the digit at i weighing `weight`;
\* digits finer than a unit are dropped
RECURSIVE FractionValue(_, _, _)
FractionValue(s, i, weight) ==
    IF i > Len(s) \/ weight = 0 THEN 0
    ELSE DigitValue(Ch(s, i)) * weight
         + FractionValue(s, i + 1, IF weight % 10 = 0 THEN weight \div 10 ELSE 0)

\* float(s) in units, where float_ok(s)
float(s) ==
    LET neg   == Len(s) >= 1 /\ Ch(s, 1) = "-"
        body  == Unsigned(s)
        dot   == IF CountFrom(body, ".", 1) = 0 THEN Len(body) + 1
                 ELSE CHOOSE k \in 1..Len(body) : Ch(body, k) = "."
        value == WholeValue(body, 1, dot - 1, 0) * Scale
                 + FractionValue(body, dot + 1, Scale \div 10)
    IN  IF neg THEN 0 - value ELSE value

\* the first index >= i of s that holds no digit
DigitRunEnd(s, i) == RunEnd(s, DigitSet, i)

\* ([-+]?\d*\.\d+|\d+) matched at index q: the index after the group, or 0.
\* The first alternative is a sign, digits, a point and at least one digit;
\* the second is a run of digits.
NumberEnd(s, q) ==
    LET a  == IF q <= Len(s) /\ IsSign(Ch(s, q)) THEN q + 1 ELSE q
        d  == DigitRunEnd(s, a)
        e  == DigitRunEnd(s, d + 1)
        d2 == DigitRunEnd(s, q)
    IN  IF d <= Len(s) /\ Ch(s, d) = "." /\ e > d + 1 THEN e
        ELSE IF d2 > q THEN d2
        ELSE 0

\* \s*(number)\s*,\s*(number) matched from index p: the set of its pairs of
\* groups, empty for no match. Q, E1, C, Q2, E2 hold the index the match has
\* reached after each part of the pattern.
CoordGroupsAt_i(s, p) ==
    LET Q  == { WsRunEnd(s, p) }
        E1 == { NumberEnd(s, q) : q \in Q } \ {0}
        C  == { c \in { WsRunEnd(s, e1) : e1 \in E1 } : c <= Len(s) /\ Ch(s, c) = "," }
        Q2 == { WsRunEnd(s, c + 1) : c \in C }
        E2 == { NumberEnd(s, q2) : q2 \in Q2 } \ {0}
    IN  { << SubSeq(s, q, e1 - 1), SubSeq(s, q2, e2 - 1) >> :
            q \in Q, e1 \in E1, q2 \in Q2, e2 \in E2 }

\* the coordinates pattern of src/i.py matched at index i: the set of its
\* pairs of groups
CoordinatesAt_i(section, i) ==
    IF MatchAtI(section, i, CoordinatesLabel)
    THEN CoordGroupsAt_i(section, i + Len(CoordinatesLabel))
    ELSE {}

\* re.search(r'coordinates:\s*([-+]?\d*\.\d+|\d+)\s*,\s*([-+]?\d*\.\d+|\d+)',
\*           section, re.I) (src/i.py): the groups of the leftmost match, or << >>
coordinates_match_i(section) ==
    LET found == { j \in 1..Len(section) :
                      /\ CoordinatesAt_i(section, j) # {}
                      /\ \A k \in 1..(j - 1) : CoordinatesAt_i(section, k) = {} }
        groups == UNION { CoordinatesAt_i(section, j) : j \in found }
    IN  IF groups = {} THEN << >> ELSE CHOOSE g \in groups : TRUE

----------------------------------------------------------------------------
(* is_valid_coordinate and create_structured_data *)

North(b) == b[1]
South(b) == b[2]
East(b) == b[3]
West(b) == b[4]

\* is_valid_coordinate without the comparison against the region's bounds
is_valid_coordinate_range_only(lat, lon, r) ==
    /\ 0 - 90 * Scale <= lat /\ lat <= 90 * Scale
    /\ 0 - 180 * Scale <= lon /\ lon <= 180 * Scale

\* is_valid_coordinate (src/a.py), where region.bounds does not raise
is_valid_coordinate(lat, lon, r) ==
    LET b == bounds(r) IN
    /\ 0 - 90 * Scale <= lat /\ lat <= 90 * Scale
    /\ 0 - 180 * Scale <= lon /\ lon <= 180 * Scale
    /\ South(b) <= lat /\ lat <= North(b)
    /\ West(b) <= lon /\ lon <= East(b)

\* the dictionary appended to `records`; None is << >>
Record(nm, tm, dm, lat, lon) ==
    [name |-> Strip(nm[1]),
     type |-> IF tm # << >> THEN Strip(tm[1]) ELSE "unspecified",
     latitude |-> lat,
     longitude |-> lon,
     description |-> IF dm # << >> THEN << Strip(dm[1]) >> ELSE << >>]

\* the four searches one turn of the loop runs on its section (src/a.py)
section_matches(section) ==
    [name |-> name_match(section),
     type |-> type_match(section),
     description |-> description_match(section),
     coordinates |-> coordinates_match(section)]

\* the four searches of src/i.py: its own coordinates pattern
section_matches_i(section) ==
    [name |-> name_match(section),
     type |-> type_match(section),
     description |-> description_match(section),
     coordinates |-> coordinates_match_i(section)]

\* the turn passes `if name_match and coordinates_match` and both float()
\* calls succeed
matches_parse(m) ==
    /\ m.name # << >>
    /\ m.coordinates # << >>
    /\ float_ok(m.coordinates[1])
    /\ float_ok(m.coordinates[2])

\* What one turn of the loop of create_structured_data (src/a.py) does with
\* the matches m of its section: the records it appends, or raised: the
\* TypeError of region.bounds is no ValueError and leaves the function.
matches_records(m, r) ==
    IF ~matches_parse(m) THEN [raised |-> FALSE, records |-> << >>]
    ELSE IF bounds_raises(r) THEN [raised |-> TRUE, records |-> << >>]
    ELSE LET lat == float(m.coordinates[1])
             lon == float(m.coordinates[2])
         IN  IF is_valid_coordinate(lat, lon, r)
             THEN [raised |-> FALSE,
                   records |-> << Record(m.name, m.type, m.description, lat, lon) >>]
             ELSE [raised |-> FALSE, records |-> << >>]

\* one turn of the loop on a section: blank sections are skipped, the four
\* searches run once and their matches m decide the turn
section_records(section, r) ==
    IF Strip(section) = "" THEN [raised |-> FALSE, records |-> << >>]
    ELSE CHOOSE turn \in { matches_records(m, r) : m \in { section_matches(section) } } :
            TRUE

\* the loop of create_structured_data over sections[i..]: the records, and
\* whether an exception left the loop
RECURSIVE LoopFrom(_, _, _, _)
LoopFrom(sections, i, r, records) ==
    IF i > Len(sections) THEN [raised |-> FALSE, df |-> records]
    ELSE LET turn == section_records(sections[i], r) IN
         IF turn.raised THEN [raised |-> TRUE, df |-> << >>]
         ELSE LoopFrom(sections, i + 1, r, records \o turn.records)

\* create_structured_data (src/a.py)
create_structured_data(text, r) ==
    CHOOSE out \in { LoopFrom(sections, 1, r, << >>) : sections \in { split(text) } } :
        TRUE

\* what one turn of the loop of src/i.py appends for the matches m of its
\* section: no bounds check
matches_records_i(m) ==
    IF ~matches_parse(m) THEN << >>
    ELSE << Record(m.name, m.type, m.description,
                   float(m.coordinates[1]), float(m.coordinates[2])) >>

\* one turn of the loop of create_structured_data of src/i.py
section_records_i(section) ==
    IF Strip(section) = "" THEN << >>
    ELSE CHOOSE records \in { matches_records_i(m) : m \in { section_matches_i(section) } } :
            TRUE

RECURSIVE LoopFrom_i(_, _, _)
LoopFrom_i(sections, i, records) ==
    IF i > Len(sections) THEN [raised |-> FALSE, df |-> records]
    ELSE LoopFrom_i(sections, i + 1, records \o section_records_i(sections[i]))

\* create_structured_data (src/i.py)
create_structured_data_i(text, r) ==
    CHOOSE out \in { LoopFrom_i(sections, 1, << >>) : sections \in { split(text) } } :
        TRUE

----------------------------------------------------------------------------
(* Values of the variables a specification does not use *)

NoProvider == ProviderFailure("none")
NoResponse == [code |-> 0]
NoRegion == SearchRegion(NotANumber, NotANumber, 0, "")

\* src/i.py has computed nothing
NoVariant == << >>

\* everything but pc and query
RestIdle ==
    /\ provider = NoProvider
    /\ user_location = default_location
    /\ regions = NoRegions
    /\ scope = SCOPE_LOCAL
    /\ region = NoRegion
    /\ completion = "none"
    /\ response_text = ""
    /\ results_df = << >>
    /\ error = "none"
    /\ response = NoResponse
    /\ steps = << >>
    /\ served = {}
    /\ intended = << >>
    /\ variant_i = NoVariant

----------------------------------------------------------------------------
(* SpecScope: determine_search_scope applied to a query *)

\* Words queries are made of: every keyword of determine_search_scope, words
\* that hold a keyword inside them or in upper case, and words that hold none.
QueryWords ==
    MetroWords \cup RegionWords \cup NearbyWords
    \cup {"mumbai", "maharashtra", "city", "best", "in",
          "Beach", "MOUNTAIN", "small", "workshop", "Mumbai"}

RECURSIVE QueriesOf(_)
QueriesOf(n) ==
    IF n = 0 THEN {""}
    ELSE LET shorter == QueriesOf(n - 1) IN
         shorter \cup QueryWords
                 \cup {q \o " " \o w : q \in shorter \ {""}, w \in QueryWords}

Queries == QueriesOf(MaxWords) \cup {"largest park in mumbai", "   "}

ScopeInit ==
    /\ pc = "classify"
    /\ query \in Queries
    /\ RestIdle

\* scope = determine_search_scope(query)
Classify ==
    /\ pc = "classify"
    /\ scope' = determine_search_scope(query)
    /\ pc' = "classified"
    /\ UNCHANGED << query, provider, user_location, regions, region, completion,
                    response_text, results_df, error, response, steps, served,
                    intended, variant_i >>

ScopeNext == Classify

SpecScope == ScopeInit /\ [][ScopeNext]_vars

\* the lower-cased query holds one of the words
Holds(q, words) == \E w \in words : Contains(Lower(q), w)

\* The rules in the order the claim gives them: the words, and the scope.
ClaimedRules ==
    << << {"college", "university", "hospital", "mall"}, "metro" >>,
       << {"park", "beach", "forest", "hill", "mountain", "island"}, "region" >>,
       << {"restaurant", "shop", "cafe", "store", "salon"}, "nearby" >>,
       << {"mumbai"}, "city" >>,
       << {"maharashtra"}, "region" >> >>

\* the scope of the first claimed rule that matches, "local" when none does
ClaimedScope(q) ==
    IF \E k \in 1..Len(ClaimedRules) : Holds(q, ClaimedRules[k][1])
    THEN LET first == CHOOSE k \in 1..Len(ClaimedRules) :
                          /\ Holds(q, ClaimedRules[k][1])
                          /\ \A j \in 1..(k - 1) : ~Holds(q, ClaimedRules[j][1])
         IN  ClaimedRules[first][2]
    ELSE "local"

\* C2: determine_search_scope returns the scope of the first rule, in the
\* fixed order metro words, region words, nearby words, 'mumbai',
\* 'maharashtra', that matches the lower-cased query, and LOCAL when none
\* matches; every query with college, university, hospital or mall yields
\* METRO, and 'largest park in mumbai' yields REGION.
C2_FirstMatchingRule ==
    pc = "classified" =>
        /\ scope = ClaimedScope(query)
        /\ (Holds(query, {"college", "university", "hospital", "mall"}) => scope = "metro")
        /\ (query = "largest park in mumbai" => scope = "region")

\* C2 witness: a query that matches the region words and 'mumbai' was
\* classified by the earlier of the two rules.
C2_Witness ==
    /\ pc = "classified"
    /\ query = "largest park in mumbai"
    /\ scope = "region"

\* C3 as claimed: every query that contains 'beach' or 'mountain' is
\* classified REGION, whatever else it contains.
C3_AsClaimed ==
    (pc = "classified" /\ Holds(query, {"beach", "mountain"})) => scope = "region"

\* C3 amended: every query that contains 'beach' or 'mountain' and none of
\* college, university, hospital, mall is classified REGION.
C3_BeachMountainRegion ==
    (/\ pc = "classified"
     /\ Holds(query, {"beach", "mountain"})
     /\ ~Holds(query, {"college", "university", "hospital", "mall"}))
        => scope = "region"

\* C3 witness: a query with 'beach' and a nearby word was classified REGION.
C3_Witness ==
    /\ pc = "classified"
    /\ query = "beach cafe"
    /\ scope = "region"

----------------------------------------------------------------------------
(* SpecRegions: a LocationService, initialize_regions and get_search_region *)

\* Values a center coordinate takes: the default location's, London's
\* (51.5074, -0.1278), and one that is no number.
CenterValues ==
    { Num(Deg(19, 549)), Num(Deg(72, 8258)), Num(Deg(51, 5074)),
      Num(0 - Deg(0, 1278)), NotANumber }

\* LocationService()
RegionsInit ==
    /\ pc = "constructed"
    /\ query = ""
    /\ RestIdle

\* location_service.initialize_regions(center_lat, center_lon)
InitializeRegions ==
    \E center_lat \in CenterValues, center_lon \in CenterValues :
        /\ regions' = initialize_regions(center_lat, center_lon)
        /\ user_location' = << center_lat, center_lon >>
        /\ pc' = "initialized"
        /\ region' = NoRegion
        /\ error' = "none"
        /\ UNCHANGED << query, provider, scope, completion, response_text,
                        results_df, response, steps, served, intended, variant_i >>

\* location_service.get_search_region(s): the region, or the ValueError
GetSearchRegion ==
    \E s \in SearchScope :
        /\ scope' = s
        /\ IF get_search_region_raises(regions)
           THEN /\ error' = "ValueError"
                /\ region' = NoRegion
                /\ pc' = "raised"
           ELSE /\ error' = "none"
                /\ region' = get_search_region(regions, s)
                /\ pc' = "returned"
        /\ UNCHANGED << query, provider, user_location, regions, completion,
                        response_text, results_df, response, steps, served,
                        intended, variant_i >>

RegionsNext == InitializeRegions \/ GetSearchRegion

SpecRegions == RegionsInit /\ [][RegionsNext]_vars

\* the radius the specification gives each scope, in km
ClaimedRadius(s) ==
    CASE s = "nearby" -> 5
      [] s = "local"  -> 15
      [] s = "city"   -> 30
      [] s = "metro"  -> 50
      [] s = "region" -> 200

\* (north 19.5, south 18.5, east 73.5, west 72.5) in units
ClaimedFixedBounds ==
    << 195 * (Scale \div 10), 185 * (Scale \div 10),
       735 * (Scale \div 10), 725 * (Scale \div 10) >>

\* (lat + r/111, lat - r/111, lon + r/111, lon - r/111) in units
ClaimedBounds(lat, lon, r) ==
    << lat + (r * Scale) \div 111, lat - (r * Scale) \div 111,
       lon + (r * Scale) \div 111, lon - (r * Scale) \div 111 >>

\* the regions were built around a center made of two numbers
NumericCenter == user_location[1].num /\ user_location[2].num

\* C4: after initialize_regions(lat, lon), whatever the center, the bounds of
\* the region of scope REGION are (19.5, 18.5, 73.5, 72.5); the bounds of each
\* other scope are the center plus and minus radius/111, so that they differ
\* from the bounds the same scope has around any other center.
C4_RegionBoundsFixed ==
    regions # NoRegions =>
        /\ ~bounds_raises(get_search_region(regions, "region"))
        /\ bounds(get_search_region(regions, "region")) = ClaimedFixedBounds
        /\ \A s \in SearchScope \ {"region"} :
              /\ bounds_raises(regions[s]) = ~NumericCenter
              /\ NumericCenter =>
                    /\ bounds(regions[s]) =
                          ClaimedBounds(user_location[1].v, user_location[2].v,
                                        ClaimedRadius(s))
                    /\ \A lat \in CenterValues, lon \in CenterValues :
                          (lat.num /\ lon.num /\ << lat, lon >> # user_location)
                            => bounds(initialize_regions(lat, lon)[s])
                                 # bounds(regions[s])

\* C4 witness: regions built around London, away from the fixed box.
C4_Witness ==
    /\ regions # NoRegions
    /\ user_location = << Num(Deg(51, 5074)), Num(0 - Deg(0, 1278)) >>
    /\ bounds(regions["region"]) = ClaimedFixedBounds

\* C5: get_search_region on a service whose regions were never initialized
\* raises the ValueError for every scope and returns no region; once
\* initialize_regions has been called it does not raise and returns, for each
\* of the five scopes, the region built for that scope.
C5_LookupNeedsInitialize ==
    /\ (pc = "raised" => regions = NoRegions /\ error = "ValueError" /\ region = NoRegion)
    /\ (pc = "returned" =>
          /\ regions # NoRegions
          /\ error = "none"
          /\ region = regions[scope]
          /\ region.radius_km = ClaimedRadius(scope)
          /\ << region.center_lat, region.center_lon >> = user_location)
    /\ (regions = NoRegions => pc \in {"constructed", "raised"})
    /\ (regions # NoRegions => pc \in {"initialized", "returned"})

\* C5 witness: after initialize_regions, a lookup of METRO returned the
\* metropolitan region.
C5_Witness ==
    /\ pc = "returned"
    /\ scope = "metro"
    /\ region.name = "Metropolitan Area"

\* C5 witness of the failure: a lookup before initialize_regions raised.
C5_WitnessRaised ==
    /\ pc = "raised"
    /\ scope = "region"

----------------------------------------------------------------------------
(* SpecGeo: LocationService.get_user_location against the provider *)

ProviderKinds == {"raise", "http", "notjson", "notdict", "fail", "nokeys", "success"}

\* what the payload holds under 'lat' and 'lon' (when it holds anything)
ProviderValues == CenterValues

ProviderAnswers ==
    { ProviderAnswer(k, lat, lon) :
        k \in ProviderKinds, lat \in ProviderValues, lon \in ProviderValues }

GeoInit ==
    /\ pc = "get_user_location"
    /\ query = ""
    /\ RestIdle

\* location_service.get_user_location()
GetUserLocation ==
    /\ pc = "get_user_location"
    /\ \E answer \in ProviderAnswers :
          /\ provider' = answer
          /\ user_location' = get_user_location(answer)
    /\ pc' = "located"
    /\ UNCHANGED << query, regions, scope, region, completion, response_text,
                    results_df, error, response, steps, served, intended, variant_i >>

GeoNext == GetUserLocation

SpecGeo == GeoInit /\ [][GeoNext]_vars

\* the provider answered a well-formed success payload
WellFormedSuccess ==
    provider.kind = "success" /\ provider.lat.num /\ provider.lon.num

\* C8: get_user_location returns the fixed default (19.0549, 72.8258) on any
\* failure of the provider (network error, non-200 status, status other than
\* 'success', payload that is no JSON or lacks numeric lat and lon), and the
\* provider's (lat, lon) only on a well-formed success payload.
C8_DefaultOnAnyFailure ==
    pc = "located" =>
        /\ WellFormedSuccess => user_location = << provider.lat, provider.lon >>
        /\ ~WellFormedSuccess =>
              user_location = << Num(190549 * (Scale \div 10000)),
                                 Num(728258 * (Scale \div 10000)) >>

----------------------------------------------------------------------------
(* SpecParse: create_structured_data applied to a completion text *)

\* A block as the completion service means it: each of name, type and
\* description is << >> (no such line) or << its text >>; coordinates is the
\* sequence of tokens after the label, joined by sep.
Block(name, type, description, coordinates, sep) ==
    [name |-> name, type |-> type, description |-> description,
     coordinates |-> coordinates, sep |-> sep]

Blocks ==
    { Block(<< "Juhu Beach" >>, << >>, << >>, << "19.10", "72.83" >>, " "),
      Block(<< "Fort" >>, << "fort" >>, << "old" >>, << "18.92", "72.83" >>, ", "),
      Block(<< "Kew" >>, << "garden" >>, << "big" >>, << "51.50", "-0.12" >>, " "),
      Block(<< "Null" >>, << >>, << >>, << "0", "0" >>, " "),
      Block(<< "Cafe" >>, << "cafe" >>, << >>, << >>, " "),
      Block(<< >>, << "beach" >>, << >>, << "19.10", "72.83" >>, " "),
      Block(<< "Bad" >>, << >>, << >>, << "1.2.3", "72.83" >>, " "),
      Block(<< "Dome" >>, << >>, << >>, << "51.50" >>, " "),
      Block(<< "" >>, << >>, << >>, << "19.10", "72.83" >>, " "),
      Block(<< >>, << >>, << >>, << >>, " ") }

RECURSIVE Join(_, _)
Join(parts, sep) ==
    IF parts = << >> THEN ""
    ELSE IF Len(parts) = 1 THEN parts[1]
    ELSE parts[1] \o sep \o Join(Tail(parts), sep)

\* the block written in the format the prompt asks for
Render(b) ==
    Join( (IF b.name = << >> THEN << >> ELSE << "Name: " \o b.name[1] >>)
          \o (IF b.type = << >> THEN << >> ELSE << "Type: " \o b.type[1] >>)
          \o (IF b.description = << >> THEN << >>
              ELSE << "Description: " \o b.description[1] >>)
          \o (IF b.coordinates = << >> THEN << >>
              ELSE << "Coordinates: " \o Join(b.coordinates, b.sep) >>),
          "\n" )

RECURSIVE RenderAll(_)
RenderAll(bs) ==
    IF bs = << >> THEN << >> ELSE << Render(Head(bs)) >> \o RenderAll(Tail(bs))

\* the completion text of a sequence of blocks: blank-line separated
TextOf(bs) == Join(RenderAll(bs), "\n\n")

RECURSIVE BlockSeqs(_)
BlockSeqs(n) ==
    IF n = 0 THEN { << >> }
    ELSE LET shorter == BlockSeqs(n - 1) IN
         shorter \cup { Append(bs, b) : bs \in shorter, b \in Blocks }

London == << Num(Deg(51, 5074)), Num(0 - Deg(0, 1278)) >>

\* the regions texts are parsed against: a center (the default location or
\* London, (51.5074, -0.1278)) and a scope
ParseRegions ==
    { << default_location, SCOPE_NEARBY >>, << default_location, SCOPE_CITY >>,
      << default_location, SCOPE_REGION >>,
      << London, SCOPE_NEARBY >>, << London, SCOPE_LOCAL >> }

ParseInit ==
    /\ pc = "create_structured_data"
    /\ query = ""
    /\ provider = NoProvider
    /\ \E bs \in BlockSeqs(MaxBlocks) :
          /\ intended = bs
          /\ variant_i = NoVariant
          /\ response_text = TextOf(bs)
    /\ \E cs \in ParseRegions :
          /\ user_location = cs[1]
          /\ regions = initialize_regions(cs[1][1], cs[1][2])
          /\ scope = cs[2]
          /\ region = get_search_region(initialize_regions(cs[1][1], cs[1][2]), cs[2])
    /\ completion = "ok"
    /\ results_df = << >>
    /\ error = "none"
    /\ response = NoResponse
    /\ steps = << >>
    /\ served = {}

\* create_structured_data(response_text, region) of src/a.py
CreateStructuredData ==
    /\ pc = "create_structured_data"
    /\ \E out \in { create_structured_data(response_text, region) } :
          /\ results_df' = out.df
          /\ error' = IF out.raised THEN "TypeError" ELSE "none"
    /\ pc' = "parsed_a"
    /\ UNCHANGED << query, provider, user_location, regions, scope, region,
                    completion, response_text, response, steps, served, intended, variant_i >>

\* create_structured_data(response_text, region) of src/i.py
CreateStructuredData_i ==
    /\ pc = "create_structured_data"
    /\ \E out \in { create_structured_data_i(response_text, region) } :
          /\ results_df' = out.df
          /\ error' = IF out.raised THEN "TypeError" ELSE "none"
    /\ pc' = "parsed_i"
    /\ UNCHANGED << query, provider, user_location, regions, scope, region,
                    completion, response_text, response, steps, served, intended, variant_i >>

ParseNext == CreateStructuredData \/ CreateStructuredData_i

SpecParse == ParseInit /\ [][ParseNext]_vars

\* the bounds (north, south, east, west) claimed for the region of scope s
\* around the center (lat, lon)
ClaimedBoundsOf(lat, lon, s) ==
    IF s = "region" THEN ClaimedFixedBounds
    ELSE ClaimedBounds(lat, lon, ClaimedRadius(s))

\* C1: every record create_structured_data of src/a.py returns has
\* -90 <= latitude <= 90, -180 <= longitude <= 180, south <= latitude <= north
\* and west <= longitude <= east for the bounds of the region of the request.
C1_RecordsWithinBounds ==
    pc = "parsed_a" =>
        LET b == ClaimedBoundsOf(user_location[1].v, user_location[2].v, scope) IN
        \A k \in 1..Len(results_df) :
            /\ 0 - 90 * Scale <= results_df[k].latitude
            /\ results_df[k].latitude <= 90 * Scale
            /\ 0 - 180 * Scale <= results_df[k].longitude
            /\ results_df[k].longitude <= 180 * Scale
            /\ b[2] <= results_df[k].latitude /\ results_df[k].latitude <= b[1]
            /\ b[4] <= results_df[k].longitude /\ results_df[k].longitude <= b[3]

\* C1 witness: a text with a place inside the region and the place (0, 0)
\* was parsed, and only the place inside the region was returned.
C1_Witness ==
    /\ pc = "parsed_a"
    /\ Len(intended) = 2
    /\ intended[1].name = << "Null" >>
    /\ intended[2].name = << "Juhu Beach" >>
    /\ Len(results_df) = 1
    /\ results_df[1].name = "Juhu Beach"

\* the numbers the coordinate tokens of Blocks stand for, in units
TokenValue(t) ==
    CASE t = "19.10" -> 1910 * (Scale \div 100)
      [] t = "72.83" -> 7283 * (Scale \div 100)
      [] t = "18.92" -> 1892 * (Scale \div 100)
      [] t = "51.50" -> 5150 * (Scale \div 100)
      [] t = "-0.12" -> 0 - 12 * (Scale \div 100)
      [] t = "0"     -> 0

IsNumberToken(t) == t \in {"19.10", "72.83", "18.92", "51.50", "-0.12", "0"}

\* the block has a name and a pair of numbers after its coordinates label
HasNameAndPair(b) ==
    /\ b.name # << >> /\ b.name[1] # ""
    /\ Len(b.coordinates) = 2
    /\ IsNumberToken(b.coordinates[1]) /\ IsNumberToken(b.coordinates[2])

\* latitude and longitude are in range and inside the bounds b
WithinClaimed(lat, lon, b) ==
    /\ 0 - 90 * Scale <= lat /\ lat <= 90 * Scale
    /\ 0 - 180 * Scale <= lon /\ lon <= 180 * Scale
    /\ b[2] <= lat /\ lat <= b[1]
    /\ b[4] <= lon /\ lon <= b[3]

\* the block qualifies in src/a.py: a name, a space-separated pair of
\* numbers, inside the bounds of the region
Qualifies_a(b) ==
    /\ HasNameAndPair(b)
    /\ b.sep = " "
    /\ WithinClaimed(TokenValue(b.coordinates[1]), TokenValue(b.coordinates[2]),
                     ClaimedBoundsOf(user_location[1].v, user_location[2].v, scope))

\* the block qualifies in src/i.py: a name and a comma-separated pair
Qualifies_i(b) == HasNameAndPair(b) /\ b.sep = ", "

\* the record of a qualifying block
ClaimedRecord(b) ==
    [name |-> b.name[1],
     type |-> IF b.type = << >> THEN "unspecified" ELSE b.type[1],
     latitude |-> TokenValue(b.coordinates[1]),
     longitude |-> TokenValue(b.coordinates[2]),
     description |-> b.description]

\* one record per qualifying block of bs[i..], in order
RECURSIVE ClaimedRecords_a(_, _)
ClaimedRecords_a(bs, i) ==
    IF i > Len(bs) THEN << >>
    ELSE (IF Qualifies_a(bs[i]) THEN << ClaimedRecord(bs[i]) >> ELSE << >>)
         \o ClaimedRecords_a(bs, i + 1)

RECURSIVE ClaimedRecords_i(_, _)
ClaimedRecords_i(bs, i) ==
    IF i > Len(bs) THEN << >>
    ELSE (IF Qualifies_i(bs[i]) THEN << ClaimedRecord(bs[i]) >> ELSE << >>)
         \o ClaimedRecords_i(bs, i + 1)

\* C9: create_structured_data returns exactly one record per qualifying
\* block, in block order, without de-duplication or cap; a block qualifies iff
\* it is non-blank, has a name and a coordinate pair that parses as two
\* numbers (in src/a.py: and the pair passes the range and bounds check);
\* other blocks are skipped and change nothing; type is 'unspecified' and
\* description absent when their lines are missing.
C9_OneRecordPerQualifyingBlock ==
    /\ pc = "parsed_a" =>
          error = "none" /\ results_df = ClaimedRecords_a(intended, 1)
    /\ pc = "parsed_i" =>
          error = "none" /\ results_df = ClaimedRecords_i(intended, 1)

\* the blocks hold no empty name line and no coordinates line with a single
\* token
RegularBlocks ==
    \A k \in 1..Len(intended) :
        /\ intended[k].name # << "" >>
        /\ Len(intended[k].coordinates) # 1

\* What holds of create_structured_data: C9 on the texts whose blocks are
\* regular.
C9_OnRegularBlocks == RegularBlocks => C9_OneRecordPerQualifyingBlock

----------------------------------------------------------------------------
(* Spec: get_places serving requests, process_location_query step by step *)

\* results_df['search_scope'] = scope.value; results_df['search_region'] =
\* region.name: both columns on every row
attach(df, s, name) ==
    [k \in 1..Len(df) |->
        [name |-> df[k].name, type |-> df[k].type, latitude |-> df[k].latitude,
         longitude |-> df[k].longitude, description |-> df[k].description,
         search_scope |-> s, search_region |-> name]]

\* where process_location_query goes when generate_content raises, retrying
\* the call
on_completion_failure_retry == "plq_invoke"

\* where process_location_query goes when generate_content raises: to its
\* `except Exception`
on_completion_failure == "plq_except"

\* what get_places answers once process_location_query returned, without the
\* test for an empty DataFrame
get_places_response_unchecked(df, location) ==
    [code |-> 200, places |-> df, user_location |-> location]

\* what get_places answers once process_location_query returned df
get_places_response(df, location) ==
    IF df = << >>
    THEN [code |-> 404, error |-> "No results found for the query"]
    ELSE [code |-> 200, places |-> df, user_location |-> location]

\* the queries requests carry
PipelineQueries == {"", "  ", "cafe", "temple", "largest park in mumbai"}

\* what the provider answers in the pipeline: a network error, London, and a
\* success payload whose lon is no number
PipelineAnswers ==
    { ProviderFailure("raise"),
      ProviderAnswer("success", London[1], London[2]),
      ProviderAnswer("success", London[1], NotANumber) }

\* the texts the completion service returns
PipelineTexts ==
    { "",
      "Sorry, I know no such place.",
      "Name: Juhu Beach\nCoordinates: 19.10 72.83",
      "Name: Null\nCoordinates: 0 0\n\nName: Kew\nType: garden\nCoordinates: 51.50 -0.12" }

\* the variables of one request, before the request
RequestIdle ==
    /\ provider = NoProvider
    /\ user_location = default_location
    /\ regions = NoRegions
    /\ scope = SCOPE_LOCAL
    /\ region = NoRegion
    /\ completion = "none"
    /\ response_text = ""
    /\ results_df = << >>
    /\ error = "none"
    /\ response = NoResponse
    /\ steps = << >>
    /\ intended = << >>
    /\ variant_i = NoVariant

Init ==
    /\ pc = "idle"
    /\ query = ""
    /\ served = {}
    /\ RequestIdle

\* GET /api/places?query=...
Receive ==
    /\ pc = "idle"
    /\ query' \in PipelineQueries
    /\ pc' = "get_places"
    /\ UNCHANGED << provider, user_location, regions, scope, region, completion,
                    response_text, results_df, error, response, steps, served,
                    intended, variant_i >>

\* get_places: query = ...strip(); if not query: 400
CheckQuery ==
    /\ pc = "get_places"
    /\ IF Strip(query) = ""
       THEN /\ response' = [code |-> 400, error |-> "No query provided"]
            /\ pc' = "done"
       ELSE /\ response' = response
            /\ pc' = "locate"
    /\ UNCHANGED << query, provider, user_location, regions, scope, region,
                    completion, response_text, results_df, error, steps, served,
                    intended, variant_i >>

\* get_places: LocationService(), get_user_location(), initialize_regions()
Locate ==
    /\ pc = "locate"
    /\ \E answer \in PipelineAnswers :
          LET location == get_user_location(answer) IN
          /\ provider' = answer
          /\ user_location' = location
          /\ regions' = initialize_regions(location[1], location[2])
    /\ pc' = "plq_configure"
    /\ UNCHANGED << query, scope, region, completion, response_text, results_df,
                    error, response, steps, served, intended, variant_i >>

\* process_location_query: genai.configure and GenerativeModel, outside its
\* try block, succeed
Configure ==
    /\ pc = "plq_configure"
    /\ pc' = "plq_classify"
    /\ UNCHANGED << query, provider, user_location, regions, scope, region,
                    completion, response_text, results_df, error, response,
                    steps, served, intended, variant_i >>

\* process_location_query: genai.configure or GenerativeModel raises; the
\* exception leaves process_location_query
ConfigureRaises ==
    /\ pc = "plq_configure"
    /\ error' = "Exception"
    /\ pc' = "gp_except"
    /\ UNCHANGED << query, provider, user_location, regions, scope, region,
                    completion, response_text, results_df, response, steps,
                    served, intended, variant_i >>

\* process_location_query: scope = determine_search_scope(query)
ClassifyQuery ==
    /\ pc = "plq_classify"
    /\ scope' = determine_search_scope(query)
    /\ steps' = Append(steps, "classify")
    /\ pc' = "plq_lookup"
    /\ UNCHANGED << query, provider, user_location, regions, region, completion,
                    response_text, results_df, error, response, served, intended, variant_i >>

\* process_location_query: region = location_service.get_search_region(scope)
LookupRegion ==
    /\ pc = "plq_lookup"
    /\ steps' = Append(steps, "lookup")
    /\ IF get_search_region_raises(regions)
       THEN /\ error' = "ValueError"
            /\ region' = region
            /\ pc' = "gp_except"
       ELSE /\ error' = error
            /\ region' = get_search_region(regions, scope)
            /\ pc' = "plq_prompt"
    /\ UNCHANGED << query, provider, user_location, regions, scope, completion,
                    response_text, results_df, response, served, intended, variant_i >>

\* process_location_query: prompt = f"""..."""
BuildPrompt ==
    /\ pc = "plq_prompt"
    /\ steps' = Append(steps, "prompt")
    /\ pc' = "plq_invoke"
    /\ UNCHANGED << query, provider, user_location, regions, scope, region,
                    completion, response_text, results_df, error, response,
                    served, intended, variant_i >>

\* process_location_query: response = model.generate_content(prompt) returns
InvokeCompletion ==
    /\ pc = "plq_invoke"
    /\ steps' = Append(steps, "invoke")
    /\ completion' = "ok"
    /\ response_text' \in PipelineTexts
    /\ pc' = "plq_parse"
    /\ UNCHANGED << query, provider, user_location, regions, scope, region,
                    results_df, error, response, served, intended, variant_i >>

\* process_location_query: model.generate_content(prompt) raises
InvokeCompletionRaises ==
    /\ pc = "plq_invoke"
    /\ steps' = Append(steps, "invoke")
    /\ completion' = "raise"
    /\ error' = "Exception"
    /\ pc' = on_completion_failure
    /\ UNCHANGED << query, provider, user_location, regions, scope, region,
                    response_text, results_df, response, served, intended, variant_i >>

\* process_location_query: results_df = create_structured_data(response.text,
\* region); its TypeError goes to the `except Exception`
ParseCompletion ==
    /\ pc = "plq_parse"
    /\ steps' = Append(steps, "parse")
    /\ \E out \in { create_structured_data(response_text, region) } :
          IF out.raised
          THEN /\ error' = "TypeError"
               /\ results_df' = results_df
               /\ pc' = "plq_except"
          ELSE /\ error' = error
               /\ results_df' = out.df
               /\ pc' = "plq_attach"
    /\ UNCHANGED << query, provider, user_location, regions, scope, region,
                    completion, response_text, response, served, intended, variant_i >>

\* process_location_query: the two column assignments
AttachMetadata ==
    /\ pc = "plq_attach"
    /\ steps' = Append(steps, "attach")
    /\ results_df' = attach(results_df, scope, region.name)
    /\ pc' = "plq_return"
    /\ UNCHANGED << query, provider, user_location, regions, scope, region,
                    completion, response_text, error, response, served, intended, variant_i >>

\* process_location_query: return results_df
ReturnResults ==
    /\ pc = "plq_return"
    /\ steps' = Append(steps, "return")
    /\ pc' = "gp_returned"
    /\ UNCHANGED << query, provider, user_location, regions, scope, region,
                    completion, response_text, results_df, error, response,
                    served, intended, variant_i >>

\* process_location_query: except Exception: return pd.DataFrame()
ReturnEmpty ==
    /\ pc = "plq_except"
    /\ steps' = Append(steps, "return")
    /\ results_df' = << >>
    /\ error' = "none"
    /\ pc' = "gp_returned"
    /\ UNCHANGED << query, provider, user_location, regions, scope, region,
                    completion, response_text, response, served, intended, variant_i >>

\* get_places: 404 on an empty DataFrame, else 200 with the places
Answer ==
    /\ pc = "gp_returned"
    /\ response' = get_places_response(results_df, user_location)
    /\ pc' = "done"
    /\ UNCHANGED << query, provider, user_location, regions, scope, region,
                    completion, response_text, results_df, error, steps, served,
                    intended, variant_i >>

\* get_places: except Exception: 500
AnswerError ==
    /\ pc = "gp_except"
    /\ response' = [code |-> 500, error |-> "Internal server error"]
    /\ error' = "none"
    /\ pc' = "done"
    /\ UNCHANGED << query, provider, user_location, regions, scope, region,
                    completion, response_text, results_df, steps, served,
                    intended, variant_i >>

\* how the finished request went
Cause ==
    IF response.code = 400 THEN "empty_query"
    ELSE IF response.code = 500 THEN "pipeline_raised"
    ELSE IF completion = "raise" THEN "completion_raised"
    ELSE IF results_df # << >> THEN "records"
    ELSE IF \E k \in 1..Len(steps) : steps[k] = "attach" THEN "zero_records"
    ELSE "parse_raised"

\* what the caller can tell the answer by: the status and the error message
Outcome == [code |-> response.code,
            error |-> IF response.code = 200 THEN "" ELSE response.error]

\* the answer is sent; the next request finds nothing of this one
Finish ==
    /\ pc = "done"
    /\ served' = served \cup { [cause |-> Cause, outcome |-> Outcome] }
    /\ pc' = "idle"
    /\ query' = ""
    /\ provider' = NoProvider
    /\ user_location' = default_location
    /\ regions' = NoRegions
    /\ scope' = SCOPE_LOCAL
    /\ region' = NoRegion
    /\ completion' = "none"
    /\ response_text' = ""
    /\ results_df' = << >>
    /\ error' = "none"
    /\ response' = NoResponse
    /\ steps' = << >>
    /\ intended' = << >>
    /\ variant_i' = NoVariant

Next ==
    \/ Receive
    \/ CheckQuery
    \/ Locate
    \/ Configure
    \/ ConfigureRaises
    \/ ClassifyQuery
    \/ LookupRegion
    \/ BuildPrompt
    \/ InvokeCompletion
    \/ InvokeCompletionRaises
    \/ ParseCompletion
    \/ AttachMetadata
    \/ ReturnResults
    \/ ReturnEmpty
    \/ Answer
    \/ AnswerError
    \/ Finish

Spec == Init /\ [][Next]_vars

\* process_location_query returned (rather than raised) in this request
Returned == steps # << >> /\ steps[Len(steps)] = "return"

\* C6: whatever the geolocation provider and the completion service do,
\* get_places ends in exactly one categorized answer and no exception is left
\* unhandled: 400 iff the stripped query is empty, 200 with a non-empty list of
\* places and the user location, 404 when zero records result, 500 when a
\* failure leaves process_location_query.
C6_CategorizedOutcome ==
    /\ error # "none" => pc \in {"plq_except", "gp_except"}
    /\ pc = "done" =>
          /\ response.code \in {400, 200, 404, 500}
          /\ (response.code = 400) <=> (Strip(query) = "")
          /\ (response.code = 200) <=>
                (Strip(query) # "" /\ Returned /\ results_df # << >>)
          /\ response.code = 200 =>
                /\ response.places = results_df
                /\ response.places # << >>
                /\ response.user_location = user_location
          /\ (response.code = 404) <=>
                (Strip(query) # "" /\ Returned /\ results_df = << >>)
          /\ (response.code = 500) <=> (Strip(query) # "" /\ ~Returned)

\* C6 witness: the geolocation provider and the completion service both
\* failed and the request was answered 404.
C6_Witness ==
    /\ pc = "done"
    /\ provider.kind = "raise"
    /\ completion = "raise"
    /\ response.code = 404

\* C7: a request whose completion call raised is never answered the way a
\* request is whose completion call succeeded and parsed to zero records.
C7_NotFoundDistinctFromFailure ==
    \A a \in served, b \in served :
        (a.cause = "completion_raised" /\ b.cause = "zero_records")
            => a.outcome # b.outcome

\* the steps of process_location_query in the order claimed
ClaimedOrder ==
    << "classify", "lookup", "prompt", "invoke", "parse", "attach", "return" >>

Position(step) == CHOOSE k \in 1..Len(ClaimedOrder) : ClaimedOrder[k] = step

Took(step) == \E k \in 1..Len(steps) : steps[k] = step

\* C10: process_location_query classifies, looks the region up, builds the
\* prompt, invokes the completion service, parses, attaches scope and region
\* name to every record and returns, in this order and each at most once; the
\* completion service is not invoked again after a failure, parsing follows
\* only a completion call that succeeded, and when the call raises the
\* function returns an empty result.
C10_OrderedSteps ==
    /\ \A i \in 1..Len(steps), j \in 1..Len(steps) :
          i < j => Position(steps[i]) < Position(steps[j])
    /\ \A k \in 2..4 : Took(ClaimedOrder[k]) => Took(ClaimedOrder[k - 1])
    /\ Took("parse") => Took("invoke") /\ completion = "ok"
    /\ Took("attach") => Took("parse")
    /\ Took("return") => Took("invoke")
    /\ completion = "raise" => ~Took("parse") /\ ~Took("attach")
    /\ pc = "gp_returned" =>
          /\ Returned
          /\ completion = "raise" => results_df = << >>
          /\ region = regions[scope]
          /\ results_df # << >> => steps = ClaimedOrder
          /\ \A k \in 1..Len(results_df) :
                /\ results_df[k].search_scope = scope
                /\ results_df[k].search_region = region.name

\* C10 witness: a run through all seven steps returned records.
C10_Witness ==
    /\ pc = "gp_returned"
    /\ steps = ClaimedOrder
    /\ results_df # << >>

\* C10 witness of the failure: the completion call raised and the function
\* returned nothing, having invoked the service once.
C10_WitnessFailure ==
    /\ pc = "gp_returned"
    /\ completion = "raise"
    /\ steps = << "classify", "lookup", "prompt", "invoke", "return" >>

----------------------------------------------------------------------------
(* The two implementations on the same input: src/a.py and src/i.py *)

\* process_location_query of src/a.py from the completion on: the DataFrame
\* it returns for response.text, the regions of the service and the scope.
\* An exception of create_structured_data ends in `except Exception`.
process_location_query(text, rs, s) ==
    CHOOSE df \in { IF out.raised THEN << >>
                    ELSE attach(out.df, s, get_search_region(rs, s).name) :
                        out \in { create_structured_data(text, get_search_region(rs, s)) } } :
        TRUE

\* process_location_query of src/i.py from the completion on
process_location_query_i(text, rs, s) ==
    CHOOSE df \in { attach(out.df, s, get_search_region(rs, s).name) :
                        out \in { create_structured_data_i(text, get_search_region(rs, s)) } } :
        TRUE

\* the blocks the compared completion texts are written from
VariantBlocks ==
    { Block(<< "Juhu Beach" >>, << >>, << >>, << "19.10", "72.83" >>, " "),
      Block(<< "Fort" >>, << "fort" >>, << "old" >>, << "18.92", "72.83" >>, ", "),
      Block(<< "Kew" >>, << "garden" >>, << "big" >>, << "51.50", "-0.12" >>, " "),
      Block(<< "Null" >>, << >>, << >>, << "0", "0" >>, " "),
      Block(<< "Dome" >>, << >>, << >>, << "51.50" >>, " "),
      Block(<< "Cafe" >>, << "cafe" >>, << >>, << >>, " ") }

RECURSIVE VariantBlockSeqs(_)
VariantBlockSeqs(n) ==
    IF n = 0 THEN { << >> }
    ELSE LET shorter == VariantBlockSeqs(n - 1) IN
         shorter \cup { Append(bs, b) : bs \in shorter, b \in VariantBlocks }

\* The block with its coordinates written on two lines: separated by a
\* space, as the prompt asks, and separated by a comma. The pattern of
\* src/a.py matches the first line, the pattern of src/i.py the second.
RenderBoth(b) ==
    Render([b EXCEPT !.sep = " "])
    \o (IF b.coordinates = << >> THEN ""
        ELSE "\nCoordinates: " \o Join(b.coordinates, ", "))

RECURSIVE RenderAllBoth(_)
RenderAllBoth(bs) ==
    IF bs = << >> THEN << >>
    ELSE << RenderBoth(Head(bs)) >> \o RenderAllBoth(Tail(bs))

\* the completion text of a sequence of blocks, every pair in both formats
TextOfBoth(bs) == Join(RenderAllBoth(bs), "\n\n")

\* a query to classify, a center to build the regions around, or a
\* completion text to process against the regions of a center
VariantsInit ==
    \/ /\ pc = "v_classify"
       /\ query \in Queries
       /\ RestIdle
    \/ /\ pc = "v_initialize"
       /\ query = ""
       /\ RestIdle
    \/ /\ pc = "v_process"
       /\ query = ""
       /\ provider = NoProvider
       /\ \E bs \in VariantBlockSeqs(MaxBlocks) :
             /\ intended = bs
             /\ response_text \in { TextOf(bs), TextOfBoth(bs) }
       /\ \E cs \in ParseRegions :
             /\ user_location = cs[1]
             /\ regions = initialize_regions(cs[1][1], cs[1][2])
             /\ scope = cs[2]
             /\ region = get_search_region(initialize_regions(cs[1][1], cs[1][2]), cs[2])
       /\ completion = "ok"
       /\ results_df = << >>
       /\ error = "none"
       /\ response = NoResponse
       /\ steps = << >>
       /\ served = {}
       /\ variant_i = NoVariant

\* determine_search_scope(query) of both files
ClassifyBoth ==
    /\ pc = "v_classify"
    /\ scope' = determine_search_scope(query)
    /\ variant_i' = determine_search_scope_i(query)
    /\ pc' = "v_classified"
    /\ UNCHANGED << query, provider, user_location, regions, region, completion,
                    response_text, results_df, error, response, steps, served,
                    intended >>

\* initialize_regions(center_lat, center_lon) of both files
InitializeBoth ==
    /\ pc = "v_initialize"
    /\ \E center_lat \in CenterValues, center_lon \in CenterValues :
          /\ user_location' = << center_lat, center_lon >>
          /\ regions' = initialize_regions(center_lat, center_lon)
          /\ variant_i' = initialize_regions_i(center_lat, center_lon)
    /\ pc' = "v_initialized"
    /\ UNCHANGED << query, provider, scope, region, completion, response_text,
                    results_df, error, response, steps, served, intended >>

\* process_location_query of both files on the same response.text, each on
\* the regions its own initialize_regions built around the same center
ProcessBoth ==
    /\ pc = "v_process"
    /\ results_df' = process_location_query(response_text, regions, scope)
    /\ variant_i' = process_location_query_i(
                        response_text,
                        initialize_regions_i(user_location[1], user_location[2]),
                        scope)
    /\ pc' = "v_processed"
    /\ UNCHANGED << query, provider, user_location, regions, scope, region,
                    completion, response_text, error, response, steps, served,
                    intended >>

VariantsNext == ClassifyBoth \/ InitializeBoth \/ ProcessBoth

SpecVariants == VariantsInit /\ [][VariantsNext]_vars

\* one of the first three rules, which the two files share, decides the query
SharedRuleHolds(q) ==
    \E k \in 1..3 : Holds(q, ClaimedRules[k][1])

\* Every coordinate pair of the processed text is accepted by both
\* coordinate patterns and lies inside the bounds of the region: the text
\* carries each pair in both formats, and each block has no coordinates or a
\* pair of numbers inside the bounds.
PairsAcceptedInside ==
    /\ response_text = TextOfBoth(intended)
    /\ \A k \in 1..Len(intended) :
          \/ intended[k].coordinates = << >>
          \/ /\ Len(intended[k].coordinates) = 2
             /\ IsNumberToken(intended[k].coordinates[1])
             /\ IsNumberToken(intended[k].coordinates[2])
             /\ WithinClaimed(TokenValue(intended[k].coordinates[1]),
                              TokenValue(intended[k].coordinates[2]),
                              ClaimedBoundsOf(user_location[1].v, user_location[2].v,
                                              scope))

C11_WitnessScope ==
    /\ pc = "v_classified"
    /\ scope # variant_i

\* C11 witness of the name divergence: the same records under two region
\* names.
C11_WitnessName ==
    /\ pc = "v_processed"
    /\ PairsAcceptedInside
    /\ results_df # << >>
    /\ results_df # variant_i

====
